---- MODULE Spec2Model ----
(***************************************************************************)
(* Incremental semantic index over a source tree: the index maintenance    *)
(* of semantic_search/indexer.py, the two-file persistence of              *)
(* semantic_search/storage.py, the request handlers of codesense/api.py    *)
(* and codesense/cli.py, and the filtered search of                        *)
(* codesense/tools/searcher.py.                                            *)
(*                                                                         *)
(* A file's bytes are a sequence of tokens: "f", "g" and "h" are lines     *)
(* holding one top-level def each, "ERR" is a line that is no valid        *)
(* Python, "BAD" is a byte sequence that is no valid UTF-8, "CR" and "LF"  *)
(* are the line-ending bytes.                                              *)
(***************************************************************************)
EXTENDS Integers, Sequences, FiniteSets, TLC

VARIABLES
    rootExists,   \* the project directory "proj" exists on disk
    tree,         \* relative path -> bytes, for the .py files under "proj"
    faissFile,    \* index name -> contents of <name>/index.faiss
    metaFile,     \* index name -> contents of <name>/metadata.json
    clock,        \* the number of saves made so far: datetime.now() and uuid4() draw from it
    last,         \* what the last operation was and how it ended
    searcher      \* the _searcher of the CodeSense instance: None, or the index it loaded

vars == <<rootExists, tree, faissFile, metaFile, clock, last, searcher>>

persisted == <<faissFile, metaFile>>

----------------------------------------------------------------------------
(* Bounds and input sets *)

MaxClock == 3

FileOrder == <<"a.py", "b.py">>

FileNames == {FileOrder[i] : i \in 1..Len(FileOrder)}

IndexNames == {"idx"}

DEFAULT_MODEL == "all-MiniLM-L6-v2"

DefTokens == {"f", "g", "h"}

FileBytes ==
    { <<>>,
      <<"f", "LF">>,
      <<"f", "CR", "LF">>,
      <<"g", "LF", "h", "LF">>,
      <<"ERR", "LF">>,
      <<"BAD">> }

\* the bytes written to the files after the first: fewer, to keep the trees few
OtherBytes == { <<"f", "LF">>, <<"ERR", "LF">> }

BytesFor(p) == IF p = FileOrder[1] THEN FileBytes ELSE OtherBytes

DirArgs == {"proj", "setup.cfg"}

MaxRows == 2

DistValues == {0, 5, 6}

TopKs == 0..(MaxRows + 1)

SpecRequests == {<<"", 5>>, <<" ", 5>>, <<"login", 0>>, <<"login", 5>>}

----------------------------------------------------------------------------
(* Helpers on sequences and dicts *)

Range(s) == {s[i] : i \in 1..Len(s)}

DictPut(d, k, v) == [x \in (DOMAIN d) \cup {k} |-> IF x = k THEN v ELSE d[x]]

DictUpdate(d, e) == [x \in (DOMAIN d) \cup (DOMAIN e) |-> IF x \in DOMAIN e THEN e[x] ELSE d[x]]

DictDrop(d, ks) == [x \in (DOMAIN d) \ ks |-> d[x]]

None == "None"

\* self._searcher = None: the CodeSense instance holds no loaded index
NoSearcher == [loaded |-> FALSE]

EmptyDict == [x \in {} |-> 0]

----------------------------------------------------------------------------
(* Reading, hashing, parsing, embedding *)

\* universal-newline translation of text-mode open(): CR LF and a lone CR become LF
RECURSIVE TranslateNewlines(_)
TranslateNewlines(b) ==
    IF b = <<>> THEN <<>>
    ELSE IF Head(b) = "CR"
         THEN IF Len(b) >= 2 /\ b[2] = "LF"
              THEN <<"LF">> \o TranslateNewlines(Tail(Tail(b)))
              ELSE <<"LF">> \o TranslateNewlines(Tail(b))
         ELSE <<Head(b)>> \o TranslateNewlines(Tail(b))

\* _read_file_content: the decoded text, or None when decoding raises
_read_file_content(bytes) ==
    IF "BAD" \in Range(bytes)
    THEN [none |-> TRUE, text |-> <<>>]
    ELSE [none |-> FALSE, text |-> TranslateNewlines(bytes)]

\* Python truthiness of the value _read_file_content returns
Truthy(content) == ~content.none /\ content.text # <<>>

\* SHA-256 of the encoded text, taken as collision-free
_calculate_file_hash(text) == <<"sha256", text>>

\* ast.parse raises SyntaxError
SyntaxError(text) == "ERR" \in Range(text)

\* an ast node: its class, its name and the statements of its body
Node(kind, name, body) == [kind |-> kind, name |-> name, body |-> body]

FunctionDefs == {"FunctionDef", "AsyncFunctionDef"}

\* _parse_function, _parse_class, _parse_method: the chunk of a node
_parse_function(node) == [type |-> "function", name |-> node.name, parent |-> None]

_parse_class(node) == [type |-> "class", name |-> node.name, parent |-> None]

_parse_method(item, class_name) == [type |-> "method", name |-> item.name, parent |-> class_name]

\* a loop over the class body that takes every statement for a method
ParseMethodsOfAnyItem(items, class_name) ==
    [i \in 1..Len(items) |-> _parse_method(items[i], class_name)]

\* PythonParser.parse: the loop over node.body of a class
RECURSIVE ParseMethods(_, _)
ParseMethods(items, class_name) ==
    IF items = <<>> THEN <<>>
    ELSE (IF Head(items).kind \in FunctionDefs
          THEN <<_parse_method(Head(items), class_name)>>
          ELSE <<>>) \o ParseMethods(Tail(items), class_name)

\* PythonParser.parse: the loop over tree.body
RECURSIVE parse(_)
parse(body) ==
    IF body = <<>> THEN <<>>
    ELSE LET node == Head(body)
         IN  (IF node.kind \in FunctionDefs
              THEN <<_parse_function(node)>>
              ELSE IF node.kind = "ClassDef"
              THEN <<_parse_class(node)>> \o ParseMethods(node.body, node.name)
              ELSE <<>>) \o parse(Tail(body))

\* ast.parse of a text of the tree: its def lines are top-level functions
AstOf(text) ==
    LET defs == SelectSeq(text, LAMBDA t : t \in DefTokens)
    IN  [i \in 1..Len(defs) |-> Node("FunctionDef", defs[i], <<>>)]

\* PythonParser.parse: the names of the chunks, in source order; none on a SyntaxError
ParseNames(text) ==
    IF SyntaxError(text) THEN <<>>
    ELSE [i \in 1..Len(parse(AstOf(text))) |-> parse(AstOf(text))[i].name]

\* one CodeChunk: chunk_id is the uuid4 drawn at extraction, here <<time of the pass, ordinal>>
CodeChunk(id, path, name) ==
    [chunk_id |-> id, file_path |-> path, type |-> "function", name |-> name,
     signature |-> <<"def", name>>, docstring |-> <<>>, code |-> <<name, "LF">>,
     framework_type |-> "None"]

\* CodeChunk.to_dict: the stored record has no code
to_dict(chunk) ==
    [chunk_id |-> chunk.chunk_id, file_path |-> chunk.file_path, type |-> chunk.type,
     name |-> chunk.name, signature |-> chunk.signature, docstring |-> chunk.docstring,
     framework_type |-> chunk.framework_type]

\* CodeChunk.get_searchable_text: the non-empty parts among signature, docstring, code
get_searchable_text(chunk) ==
    SelectSeq(<<chunk.signature, chunk.docstring, chunk.code>>, LAMBDA part : part # <<>>)

\* EmbeddingModel.encode of one text: a black box, named by the model and the text
encode(model, text) == [model |-> model, text |-> text]

\* the models an Indexer is built with: the default one, one of the same dimension and
\* one of another dimension
Models == {DEFAULT_MODEL, "all-MiniLM-L12-v2", "all-mpnet-base-v2"}

\* EmbeddingModel.get_embedding_dim: the length of the vectors of the model
get_embedding_dim(model) == IF model = "all-mpnet-base-v2" THEN 768 ELSE 384

\* np.vstack([kept_embeddings, new_embeddings]) raises when the vectors kept from the old
\* index and the vectors of the model of this Indexer differ in length
VstackRaises(rows, kept_indices, texts, model) ==
    /\ kept_indices # <<>>
    /\ texts # <<>>
    /\ get_embedding_dim(rows[kept_indices[1]].model) # get_embedding_dim(model)

\* the FileRecord stored for a file; src is the bytes it was computed from
FileRecord(bytes, text) ==
    [hash |-> _calculate_file_hash(text), size |-> Len(text), src |-> bytes]

----------------------------------------------------------------------------
(* Indexer: building an index *)

\* _collect_files: the .py files under the root, sorted by path
_collect_files == SelectSeq(FileOrder, LAMBDA p : p \in DOMAIN tree)

\* a read-hash-parse loop that ends at the first file the parser rejects
RECURSIVE ParseFilesUntilError(_, _, _)
ParseFilesUntilError(paths, stamp, acc) ==
    IF paths = <<>> THEN acc
    ELSE LET p == Head(paths)
             content == _read_file_content(tree[p])
         IN  IF ~Truthy(content)
             THEN ParseFilesUntilError(Tail(paths), stamp, acc)
             ELSE IF SyntaxError(content.text)
             THEN acc
             ELSE LET names == ParseNames(content.text)
                      n == Len(acc.chunks)
                      chunks == [i \in 1..Len(names) |-> CodeChunk(<<stamp, n + i>>, p, names[i])]
                  IN  ParseFilesUntilError(Tail(paths), stamp,
                          [chunks |-> acc.chunks \o chunks,
                           file_metadata |->
                               DictPut(acc.file_metadata, p, FileRecord(tree[p], content.text))])

\* the read-hash-parse loop shared by _index_with_chunks and _update_index_with_chunks:
\* a file whose content is None or empty is skipped, without a FileRecord
RECURSIVE ParseFiles(_, _, _)
ParseFiles(paths, stamp, acc) ==
    IF paths = <<>> THEN acc
    ELSE LET p == Head(paths)
             content == _read_file_content(tree[p])
         IN  IF ~Truthy(content)
             THEN ParseFiles(Tail(paths), stamp, acc)
             ELSE LET names == ParseNames(content.text)
                      n == Len(acc.chunks)
                      chunks == [i \in 1..Len(names) |-> CodeChunk(<<stamp, n + i>>, p, names[i])]
                  IN  ParseFiles(Tail(paths), stamp,
                          [chunks |-> acc.chunks \o chunks,
                           file_metadata |->
                               DictPut(acc.file_metadata, p, FileRecord(tree[p], content.text))])

NoParse == [chunks |-> <<>>, file_metadata |-> EmptyDict]

\* the read loop shared by _index_whole_files and _update_index_whole_files
RECURSIVE ReadFiles(_, _)
ReadFiles(paths, acc) ==
    IF paths = <<>> THEN acc
    ELSE LET p == Head(paths)
             content == _read_file_content(tree[p])
         IN  IF ~Truthy(content)
             THEN ReadFiles(Tail(paths), acc)
             ELSE ReadFiles(Tail(paths),
                      [file_data |-> Append(acc.file_data,
                           [file_path |-> p, size |-> Len(content.text),
                            hash |-> _calculate_file_hash(content.text), src |-> tree[p]]),
                       file_contents |-> Append(acc.file_contents, content.text)])

NoRead == [file_data |-> <<>>, file_contents |-> <<>>]

EncodeAll(model, texts) == [i \in 1..Len(texts) |-> encode(model, texts[i])]

NoSave == [saved |-> FALSE, rows |-> <<>>, metadata |-> EmptyDict]

\* _index_with_chunks: what it hands to save_index, or NoSave when it returns before
_index_with_chunks(files, index_name, model, stamp) ==
    LET parsed == ParseFiles(files, stamp, NoParse)
        all_chunks == parsed.chunks
        chunk_texts == [i \in 1..Len(all_chunks) |-> get_searchable_text(all_chunks[i])]
    IN  IF Len(all_chunks) = 0 THEN NoSave
        ELSE [saved |-> TRUE,
              rows |-> EncodeAll(model, chunk_texts),
              metadata |->
                  [index_name |-> index_name, indexed_path |-> "proj",
                   created_at |-> stamp, updated_at |-> stamp,
                   num_files |-> Len(files), num_chunks |-> Len(all_chunks),
                   embedding_model |-> model,
                   embedding_dimension |-> get_embedding_dim(model), use_chunking |-> TRUE,
                   chunks |-> [i \in 1..Len(all_chunks) |-> to_dict(all_chunks[i])],
                   files |-> <<>>,
                   file_metadata |-> parsed.file_metadata]]

\* _index_whole_files
_index_whole_files(files, index_name, model, stamp) ==
    LET read == ReadFiles(files, NoRead)
    IN  IF Len(read.file_contents) = 0 THEN NoSave
        ELSE [saved |-> TRUE,
              rows |-> EncodeAll(model, read.file_contents),
              metadata |->
                  [index_name |-> index_name, indexed_path |-> "proj",
                   created_at |-> stamp, updated_at |-> stamp,
                   num_files |-> Len(read.file_data), num_chunks |-> 0,
                   embedding_model |-> model,
                   embedding_dimension |-> get_embedding_dim(model), use_chunking |-> FALSE,
                   chunks |-> <<>>,
                   files |-> read.file_data,
                   file_metadata |-> EmptyDict]]

\* index_directory up to its save: the error it raises, or the plan of its save
index_directory(directory_path, index_name, use_chunking, model, stamp) ==
    IF directory_path = "proj" /\ ~rootExists
    THEN [outcome |-> "FileNotFoundError", plan |-> NoSave]
    ELSE IF directory_path # "proj"
    THEN [outcome |-> "ValueError", plan |-> NoSave]
    ELSE IF Len(_collect_files) = 0
    THEN [outcome |-> "ok", plan |-> NoSave]
    ELSE [outcome |-> "ok",
          plan |-> IF use_chunking
                   THEN _index_with_chunks(_collect_files, index_name, model, stamp)
                   ELSE _index_whole_files(_collect_files, index_name, model, stamp)]

----------------------------------------------------------------------------
(* Indexer: updating an index *)

\* the files of the tree that have no persisted record
NewFiles(current_files, existing) == SelectSeq(current_files, LAMBDA p : p \notin existing)

\* a recorded file is Changed when its content reads as non-empty text whose hash differs
IsChanged(p, existing_hash) ==
    LET content == _read_file_content(tree[p])
    IN  Truthy(content) /\ _calculate_file_hash(content.text) # existing_hash

DeletedFiles(current_files, existing) == existing \ Range(current_files)

\* a kept-record test that is inverted: it keeps the records of the files to remove
KeptIndicesInverted(records, files_to_remove) ==
    SelectSeq([i \in 1..Len(records) |-> i],
              LAMBDA i : records[i].file_path \in files_to_remove)

\* a kept-record test that keeps every persisted record
KeptIndicesOfAll(records, files_to_remove) == [i \in 1..Len(records) |-> i]

\* the positions of the persisted records whose file is not in files_to_remove
KeptIndices(records, files_to_remove) ==
    SelectSeq([i \in 1..Len(records) |-> i],
              LAMBDA i : records[i].file_path \notin files_to_remove)

\* a rebuild that reconstructs every stored vector and forgets to select the kept ones
KeptEmbeddingsAll(rows, kept_indices) == rows

\* a rebuild that takes the first vectors instead of the vectors at the kept positions
KeptEmbeddingsPrefix(rows, kept_indices) == SubSeq(rows, 1, Len(kept_indices))

\* reconstruct_n(0, ntotal)[kept_indices]: the stored vectors at the kept positions
KeptEmbeddings(rows, kept_indices) == [i \in 1..Len(kept_indices) |-> rows[kept_indices[i]]]

\* an update that parses every file of the tree again
FilesToIndexAll(new_files, changed_files) == _collect_files

\* files_to_index = new_files + changed_files
FilesToIndex(new_files, changed_files) == new_files \o changed_files

\* _update_index_with_chunks: the error it raises, or the plan of its save; encoded is
\* the list of texts it passes to embedding_model.encode
_update_index_with_chunks(index_name, rows, metadata, model, stamp) ==
    LET current_files == _collect_files
        existing_file_metadata == metadata.file_metadata
        existing_chunks == metadata.chunks
        existing == DOMAIN existing_file_metadata
        new_files == NewFiles(current_files, existing)
        changed_files ==
            SelectSeq(current_files,
                      LAMBDA p : p \in existing /\ IsChanged(p, existing_file_metadata[p].hash))
        deleted_files == DeletedFiles(current_files, existing)
        files_to_remove == deleted_files \cup Range(changed_files)
        kept_chunk_indices == KeptIndices(existing_chunks, files_to_remove)
        kept_chunks == [i \in 1..Len(kept_chunk_indices) |-> existing_chunks[kept_chunk_indices[i]]]
        parsed == ParseFiles(FilesToIndex(new_files, changed_files), stamp, NoParse)
        new_chunks == parsed.chunks
        new_chunk_texts == [i \in 1..Len(new_chunks) |-> get_searchable_text(new_chunks[i])]
        all_chunks == kept_chunks \o [i \in 1..Len(new_chunks) |-> to_dict(new_chunks[i])]
        updated_file_metadata ==
            DictUpdate(DictDrop(existing_file_metadata, files_to_remove), parsed.file_metadata)
    IN  IF new_files = <<>> /\ changed_files = <<>> /\ deleted_files = {}
        THEN [outcome |-> "ok", encoded |-> <<>>,
              plan |-> [saved |-> TRUE, rows |-> rows,
                        metadata |-> [metadata EXCEPT !.updated_at = stamp]]]
        ELSE IF \E i \in Range(kept_chunk_indices) : i > Len(rows)
        THEN [outcome |-> "IndexError", encoded |-> <<>>, plan |-> NoSave]
        ELSE IF VstackRaises(rows, kept_chunk_indices, new_chunk_texts, model)
        THEN [outcome |-> "ValueError", encoded |-> new_chunk_texts, plan |-> NoSave]
        ELSE IF kept_chunk_indices = <<>> /\ new_chunk_texts = <<>>
        THEN [outcome |-> "ok", encoded |-> <<>>, plan |-> NoSave]
        ELSE [outcome |-> "ok", encoded |-> new_chunk_texts,
              plan |-> [saved |-> TRUE,
                        rows |-> KeptEmbeddings(rows, kept_chunk_indices)
                                 \o EncodeAll(model, new_chunk_texts),
                        metadata |-> [metadata EXCEPT
                                         !.updated_at = stamp,
                                         !.num_files = Cardinality(DOMAIN updated_file_metadata),
                                         !.num_chunks = Len(all_chunks),
                                         !.chunks = all_chunks,
                                         !.file_metadata = updated_file_metadata]]]

\* _update_index_whole_files
_update_index_whole_files(index_name, rows, metadata, model, stamp) ==
    LET current_files == _collect_files
        files_list == metadata.files
        existing == {files_list[i].file_path : i \in 1..Len(files_list)}
        \* existing_files[p]: the dict comprehension keeps the last record of a path
        existing_hash(p) ==
            LET idx == CHOOSE i \in 1..Len(files_list) :
                           /\ files_list[i].file_path = p
                           /\ \A j \in (i + 1)..Len(files_list) : files_list[j].file_path # p
            IN  files_list[idx].hash
        new_files == NewFiles(current_files, existing)
        changed_files ==
            SelectSeq(current_files, LAMBDA p : p \in existing /\ IsChanged(p, existing_hash(p)))
        deleted_file_paths == DeletedFiles(current_files, existing)
        files_to_remove == deleted_file_paths \cup Range(changed_files)
        kept_file_indices == KeptIndices(files_list, files_to_remove)
        kept_files == [i \in 1..Len(kept_file_indices) |-> files_list[kept_file_indices[i]]]
        read == ReadFiles(new_files \o changed_files, NoRead)
        all_files == kept_files \o read.file_data
    IN  IF new_files = <<>> /\ changed_files = <<>> /\ deleted_file_paths = {}
        THEN [outcome |-> "ok",
              plan |-> [saved |-> TRUE, rows |-> rows,
                        metadata |-> [metadata EXCEPT !.updated_at = stamp]]]
        ELSE IF \E i \in Range(kept_file_indices) : i > Len(rows)
        THEN [outcome |-> "IndexError", plan |-> NoSave]
        ELSE IF VstackRaises(rows, kept_file_indices, read.file_contents, model)
        THEN [outcome |-> "ValueError", plan |-> NoSave]
        ELSE IF kept_file_indices = <<>> /\ read.file_contents = <<>>
        THEN [outcome |-> "ok", plan |-> NoSave]
        ELSE [outcome |-> "ok",
              plan |-> [saved |-> TRUE,
                        rows |-> KeptEmbeddings(rows, kept_file_indices)
                                 \o EncodeAll(model, read.file_contents),
                        metadata |-> [metadata EXCEPT
                                         !.updated_at = stamp,
                                         !.num_files = Len(all_files),
                                         !.files = all_files]]]

\* IndexStorage.index_exists looks at the vector file alone
index_exists(index_name) == index_name \in DOMAIN faissFile

\* IndexStorage.load_index: both files must be there
CanLoad(index_name) == index_name \in DOMAIN faissFile /\ index_name \in DOMAIN metaFile

\* an update_index that does not look for the indexed directory before it scans it
update_index_unchecked(index_name, model, stamp) ==
    IF ~index_exists(index_name) \/ ~CanLoad(index_name)
    THEN [outcome |-> "FileNotFoundError", plan |-> NoSave]
    ELSE IF metaFile[index_name].use_chunking
    THEN _update_index_with_chunks(index_name, faissFile[index_name].rows,
                                   metaFile[index_name], model, stamp)
    ELSE _update_index_whole_files(index_name, faissFile[index_name].rows,
                                   metaFile[index_name], model, stamp)

\* update_index up to its save
update_index(index_name, model, stamp) ==
    IF ~index_exists(index_name) \/ ~CanLoad(index_name)
    THEN [outcome |-> "FileNotFoundError", plan |-> NoSave]
    ELSE IF ~rootExists
    THEN [outcome |-> "FileNotFoundError", plan |-> NoSave]
    ELSE IF metaFile[index_name].use_chunking
    THEN _update_index_with_chunks(index_name, faissFile[index_name].rows,
                                   metaFile[index_name], model, stamp)
    ELSE _update_index_whole_files(index_name, faissFile[index_name].rows,
                                   metaFile[index_name], model, stamp)

----------------------------------------------------------------------------
(* Searcher: strings *)

\* Python truthiness of an optional string
Falsy(s) == s = None \/ s = ""

\* the characters of each string the search handles
Chars(s) ==
    CASE s = "model" -> <<"m", "o", "d", "e", "l">>
      [] s = "models" -> <<"m", "o", "d", "e", "l", "s">>
      [] s = "schema" -> <<"s", "c", "h", "e", "m", "a">>
      [] s = "schemas" -> <<"s", "c", "h", "e", "m", "a", "s">>
      [] s = "entity" -> <<"e", "n", "t", "i", "t", "y">>
      [] s = "entities" -> <<"e", "n", "t", "i", "t", "i", "e", "s">>
      [] s = "orm" -> <<"o", "r", "m">>
      [] s = "database table" -> <<"d", "a", "t", "a", "b", "a", "s", "e", " ", "t", "a", "b", "l", "e">>
      [] s = "route" -> <<"r", "o", "u", "t", "e">>
      [] s = "routes" -> <<"r", "o", "u", "t", "e", "s">>
      [] s = "endpoint" -> <<"e", "n", "d", "p", "o", "i", "n", "t">>
      [] s = "endpoints" -> <<"e", "n", "d", "p", "o", "i", "n", "t", "s">>
      [] s = "api" -> <<"a", "p", "i">>
      [] s = "path" -> <<"p", "a", "t", "h">>
      [] s = "url" -> <<"u", "r", "l">>
      [] s = "view" -> <<"v", "i", "e", "w">>
      [] s = "views" -> <<"v", "i", "e", "w", "s">>
      [] s = "viewset" -> <<"v", "i", "e", "w", "s", "e", "t">>
      [] s = "viewsets" -> <<"v", "i", "e", "w", "s", "e", "t", "s">>
      [] s = "template" -> <<"t", "e", "m", "p", "l", "a", "t", "e">>
      [] s = "serializer" -> <<"s", "e", "r", "i", "a", "l", "i", "z", "e", "r">>
      [] s = "serializers" -> <<"s", "e", "r", "i", "a", "l", "i", "z", "e", "r", "s">>
      [] s = "function" -> <<"f", "u", "n", "c", "t", "i", "o", "n">>
      [] s = "def " -> <<"d", "e", "f", " ">>
      [] s = "method" -> <<"m", "e", "t", "h", "o", "d">>
      [] s = "methods" -> <<"m", "e", "t", "h", "o", "d", "s">>
      [] s = "class" -> <<"c", "l", "a", "s", "s">>
      [] s = "classes" -> <<"c", "l", "a", "s", "s", "e", "s">>
      [] s = "django" -> <<"d", "j", "a", "n", "g", "o">>
      [] s = "drf" -> <<"d", "r", "f">>
      [] s = "rest_framework" -> <<"r", "e", "s", "t", "_", "f", "r", "a", "m", "e", "w", "o", "r", "k">>
      [] s = "fastapi" -> <<"f", "a", "s", "t", "a", "p", "i">>
      [] s = "pydantic" -> <<"p", "y", "d", "a", "n", "t", "i", "c">>
      [] s = "flask" -> <<"f", "l", "a", "s", "k">>
      [] s = "blueprint" -> <<"b", "l", "u", "e", "p", "r", "i", "n", "t">>
      [] s = "django_model" -> <<"d", "j", "a", "n", "g", "o", "_", "m", "o", "d", "e", "l">>
      [] s = "pydantic_model" -> <<"p", "y", "d", "a", "n", "t", "i", "c", "_", "m", "o", "d", "e", "l">>
      [] s = "fastapi_route" -> <<"f", "a", "s", "t", "a", "p", "i", "_", "r", "o", "u", "t", "e">>
      [] s = "flask_route" -> <<"f", "l", "a", "s", "k", "_", "r", "o", "u", "t", "e">>
      [] s = "django_view" -> <<"d", "j", "a", "n", "g", "o", "_", "v", "i", "e", "w">>
      [] s = "django_serializer" -> <<"d", "j", "a", "n", "g", "o", "_", "s", "e", "r", "i", "a", "l", "i", "z", "e", "r">>
      [] s = "flask_blueprint" -> <<"f", "l", "a", "s", "k", "_", "b", "l", "u", "e", "p", "r", "i", "n", "t">>
      [] s = "" -> <<>>
      [] s = " " -> <<" ">>
      [] s = "login" -> <<"l", "o", "g", "i", "n">>
      [] s = "user authentication model" -> <<"u", "s", "e", "r", " ", "a", "u", "t", "h", "e", "n", "t", "i", "c", "a", "t", "i", "o", "n", " ", "m", "o", "d", "e", "l">>
      [] s = "API" -> <<"A", "P", "I">>
      [] s = "flask view" -> <<"f", "l", "a", "s", "k", " ", "v", "i", "e", "w">>
      [] s = "parse" -> <<"p", "a", "r", "s", "e">>
      [] s = "class model" -> <<"c", "l", "a", "s", "s", " ", "m", "o", "d", "e", "l">>
      [] s = "MODEL" -> <<"M", "O", "D", "E", "L">>
      [] s = "ango" -> <<"a", "n", "g", "o">>
      [] s = "title" -> <<"t", "i", "t", "l", "e">>
      [] s = "_cache" -> <<"_", "c", "a", "c", "h", "e">>
      [] s = "objects" -> <<"o", "b", "j", "e", "c", "t", "s">>
      [] s = "Meta" -> <<"M", "e", "t", "a">>
      [] s = "Config" -> <<"C", "o", "n", "f", "i", "g">>

\* str.lower on one character
LowerChar(c) ==
    CASE c = "A" -> "a"
      [] c = "B" -> "b"
      [] c = "C" -> "c"
      [] c = "D" -> "d"
      [] c = "E" -> "e"
      [] c = "F" -> "f"
      [] c = "G" -> "g"
      [] c = "H" -> "h"
      [] c = "I" -> "i"
      [] c = "J" -> "j"
      [] c = "K" -> "k"
      [] c = "L" -> "l"
      [] c = "M" -> "m"
      [] c = "N" -> "n"
      [] c = "O" -> "o"
      [] c = "P" -> "p"
      [] c = "Q" -> "q"
      [] c = "R" -> "r"
      [] c = "S" -> "s"
      [] c = "T" -> "t"
      [] c = "U" -> "u"
      [] c = "V" -> "v"
      [] c = "W" -> "w"
      [] c = "X" -> "x"
      [] c = "Y" -> "y"
      [] c = "Z" -> "z"
      [] OTHER -> c

\* _analyze_query_intent: the framework groups, in dict order
framework_keywords ==
    << [key |-> "django", values |-> <<"django", "drf", "rest_framework">>],
       [key |-> "fastapi", values |-> <<"fastapi", "pydantic">>],
       [key |-> "flask", values |-> <<"flask", "blueprint">>] >>

\* _analyze_query_intent: the generic groups, in dict order
intent_keywords ==
    << [key |-> "model", values |-> <<"model", "models", "schema", "schemas", "entity", "entities", "orm", "database table">>],
       [key |-> "route", values |-> <<"route", "routes", "endpoint", "endpoints", "api", "path", "url">>],
       [key |-> "view", values |-> <<"view", "views", "viewset", "viewsets", "template">>],
       [key |-> "serializer", values |-> <<"serializer", "serializers">>],
       [key |-> "function", values |-> <<"function", "def ", "method", "methods">>],
       [key |-> "class", values |-> <<"class", "classes">>] >>

\* _matches_filter: the fixed filter table
filter_mappings ==
    << [key |-> "model", values |-> <<"django_model", "pydantic_model">>],
       [key |-> "route", values |-> <<"fastapi_route", "flask_route">>],
       [key |-> "view", values |-> <<"django_view">>],
       [key |-> "serializer", values |-> <<"django_serializer">>],
       [key |-> "function", values |-> <<"function">>],
       [key |-> "class", values |-> <<"class">>],
       [key |-> "method", values |-> <<"method">>],
       [key |-> "django", values |-> <<"django_model", "django_view", "django_serializer">>],
       [key |-> "fastapi", values |-> <<"fastapi_route", "pydantic_model">>],
       [key |-> "flask", values |-> <<"flask_route", "flask_blueprint">>],
       [key |-> "django_model", values |-> <<"django_model">>],
       [key |-> "django_view", values |-> <<"django_view">>],
       [key |-> "django_serializer", values |-> <<"django_serializer">>],
       [key |-> "fastapi_route", values |-> <<"fastapi_route">>],
       [key |-> "flask_route", values |-> <<"flask_route">>],
       [key |-> "pydantic_model", values |-> <<"pydantic_model">>] >>

Queries == {"", " ", "login", "user authentication model", "API", "flask view", "class model"}

ExplicitFilters == {"", "model", "MODEL", "function", "ango"}

Lower(chars) == [i \in 1..Len(chars) |-> LowerChar(chars[i])]

\* Python's "needle in hay" on strings
Contains(hay, needle) ==
    \E i \in 0..(Len(hay) - Len(needle)) : SubSeq(hay, i + 1, i + Len(needle)) = needle

\* str.strip(): white space is dropped at both ends
RECURSIVE LStrip(_)
LStrip(chars) ==
    IF chars # <<>> /\ Head(chars) = " " THEN LStrip(Tail(chars)) ELSE chars

RECURSIVE RStrip(_)
RStrip(chars) ==
    IF chars # <<>> /\ chars[Len(chars)] = " "
    THEN RStrip(SubSeq(chars, 1, Len(chars) - 1))
    ELSE chars

Strip(chars) == RStrip(LStrip(chars))

\* "not query or not query.strip()"
EmptyQuery(query) == query = "" \/ Strip(Chars(query)) = <<>>

----------------------------------------------------------------------------
(* Searcher: intent detection and filter matching *)

\* the key of the first group of the table one of whose keywords is in the query
RECURSIVE FirstGroup(_, _)
FirstGroup(groups, query_lower) ==
    IF groups = <<>> THEN None
    ELSE IF \E k \in 1..Len(Head(groups).values) :
                Contains(query_lower, Chars(Head(groups).values[k]))
         THEN Head(groups).key
         ELSE FirstGroup(Tail(groups), query_lower)

\* an intent detection that tries the generic groups before the framework groups
_analyze_query_intent_generic_first(query) ==
    LET query_lower == Lower(Chars(query))
        intent == FirstGroup(intent_keywords, query_lower)
    IN  IF intent # None THEN intent
        ELSE FirstGroup(framework_keywords, query_lower)

\* Searcher._analyze_query_intent
_analyze_query_intent(query) ==
    LET query_lower == Lower(Chars(query))
        framework == FirstGroup(framework_keywords, query_lower)
    IN  IF framework # None THEN framework
        ELSE FirstGroup(intent_keywords, query_lower)

\* filter_mappings[filter_lower], or no entry
MappingOf(filter_lower) ==
    {filter_mappings[i].values : i \in {j \in 1..Len(filter_mappings) :
                                            Chars(filter_mappings[j].key) = filter_lower}}

\* Searcher._matches_filter raises AttributeError: None has no lower()
MatchRaises(chunk_info, filter_type) ==
    /\ MappingOf(Lower(Chars(filter_type))) = {}
    /\ chunk_info.framework_type = None

\* a _matches_filter that lets every chunk without a framework tag through
_matches_filter_untagged(chunk_info, filter_type) ==
    LET mapping == MappingOf(Lower(Chars(filter_type)))
    IN  \/ chunk_info.framework_type = None
        \/ /\ mapping # {}
           /\ chunk_info.framework_type \in Range(CHOOSE m \in mapping : TRUE)

\* Searcher._matches_filter, where it does not raise
_matches_filter(chunk_info, filter_type) ==
    LET framework_type == chunk_info.framework_type
        chunk_type == chunk_info.type
        filter_lower == Lower(Chars(filter_type))
        mapping == MappingOf(filter_lower)
    IN  IF mapping # {}
        THEN LET allowed_types == Range(CHOOSE m \in mapping : TRUE)
             IN  framework_type \in allowed_types \/ chunk_type \in allowed_types
        ELSE \/ Contains(Lower(Chars(framework_type)), filter_lower)
             \/ Contains(Lower(Chars(chunk_type)), filter_lower)
             \/ framework_type = filter_type
             \/ chunk_type = filter_type

----------------------------------------------------------------------------
(* Searcher: search *)

\* the score of a result in tenths: the distance, times 0.8 when boosted
Score(distance, boosted) == IF boosted THEN distance * 8 ELSE distance * 10

Min(a, b) == IF a <= b THEN a ELSE b

\* list.sort(key=score) is stable: a result goes behind every result of a score not above its own
RECURSIVE InsertByScore(_, _)
InsertByScore(sorted, r) ==
    IF sorted = <<>> THEN <<r>>
    ELSE IF Head(sorted).score <= r.score
         THEN <<Head(sorted)>> \o InsertByScore(Tail(sorted), r)
         ELSE <<r>> \o sorted

RECURSIVE SortByScore(_)
SortByScore(results) ==
    IF results = <<>> THEN <<>>
    ELSE InsertByScore(SortByScore(SubSeq(results, 1, Len(results) - 1)),
                       results[Len(results)])

\* a search that leaves the rank each result was built with
AssignRanksNever(results) == results

\* "for rank, result in enumerate(results, start=1): result.rank = rank"
AssignRanks(results) == [i \in 1..Len(results) |-> [results[i] EXCEPT !.rank = i]]

\* a boost that is given to every accepted chunk
BoostedAlways(chunk_info, detected_filter) == TRUE

\* "detected_filter and self._matches_filter(chunk_info, detected_filter)"
Boosted(chunk_info, detected_filter) ==
    /\ ~Falsy(detected_filter)
    /\ _matches_filter(chunk_info, detected_filter)

\* the chunk-mode loop of Searcher.search over the hits, nearest first
RECURSIVE CollectChunks(_, _, _, _, _, _)
CollectChunks(hits, chunks, active_filter, detected_filter, top_k, results) ==
    IF hits = <<>> \/ Len(results) >= top_k
    THEN [raised |-> FALSE, results |-> results]
    ELSE LET idx == Head(hits).row
             distance == Head(hits).distance
         IN  IF ~(idx >= 1 /\ idx <= Len(chunks))
             THEN CollectChunks(Tail(hits), chunks, active_filter, detected_filter, top_k, results)
             ELSE LET chunk_info == chunks[idx]
                  IN  IF ~Falsy(active_filter) /\ MatchRaises(chunk_info, active_filter)
                      THEN [raised |-> TRUE, results |-> results]
                      ELSE IF ~Falsy(active_filter) /\ ~_matches_filter(chunk_info, active_filter)
                      THEN CollectChunks(Tail(hits), chunks, active_filter, detected_filter,
                                         top_k, results)
                      ELSE LET boosted == Boosted(chunk_info, detected_filter)
                               result == [file_path |-> chunk_info.file_path,
                                          score |-> Score(distance, boosted),
                                          rank |-> 0,
                                          chunk_type |-> chunk_info.type,
                                          name |-> chunk_info.name,
                                          framework_type |-> chunk_info.framework_type,
                                          row |-> idx]
                           IN  CollectChunks(Tail(hits), chunks, active_filter, detected_filter,
                                             top_k, Append(results, result))

\* the whole-file loop of Searcher.search: the rank is the position among the hits
RECURSIVE CollectFiles(_, _, _, _)
CollectFiles(hits, files, rank, results) ==
    IF hits = <<>> THEN results
    ELSE LET idx == Head(hits).row
         IN  IF ~(idx >= 1 /\ idx <= Len(files))
             THEN CollectFiles(Tail(hits), files, rank + 1, results)
             ELSE CollectFiles(Tail(hits), files, rank + 1,
                      Append(results,
                             [file_path |-> files[idx].file_path,
                              score |-> Score(Head(hits).distance, FALSE),
                              rank |-> rank,
                              chunk_type |-> None, name |-> None, framework_type |-> None,
                              row |-> idx]))

\* Searcher.search on a loaded index; nearest is what the vector index answers for
\* k = ntotal, so its first actual_k entries are the answer for actual_k
SearcherSearch(ntotal, metadata, query, top_k, filter_type, nearest) ==
    IF EmptyQuery(query) THEN [outcome |-> "ValueError", results |-> <<>>]
    ELSE IF top_k <= 0 THEN [outcome |-> "ValueError", results |-> <<>>]
    ELSE IF ntotal = 0 THEN [outcome |-> "ok", results |-> <<>>]
    ELSE LET detected_filter == IF Falsy(filter_type) THEN _analyze_query_intent(query) ELSE None
             active_filter == IF Falsy(filter_type) THEN detected_filter ELSE filter_type
             search_k == IF ~Falsy(active_filter) THEN top_k * 10 ELSE top_k
             actual_k == Min(search_k, ntotal)
             hits == SubSeq(nearest, 1, actual_k)
         IN  IF metadata.use_chunking
             THEN LET got == CollectChunks(hits, metadata.chunks, active_filter,
                                           detected_filter, top_k, <<>>)
                  IN  IF got.raised THEN [outcome |-> "AttributeError", results |-> <<>>]
                      ELSE [outcome |-> "ok", results |-> AssignRanks(SortByScore(got.results))]
             ELSE [outcome |-> "ok", results |-> CollectFiles(hits, metadata.files, 1, <<>>)]

----------------------------------------------------------------------------
(* The state machine *)

\* last: the operation, its argument, how it ended (the exception it raised, "ok" when it
\* returned, "killed" when it was interrupted), whether it saved, and fresh: no file has
\* changed since the index_directory that last saved
Started == [op |-> "init", arg |-> None, outcome |-> "ok", saved |-> FALSE, fresh |-> FALSE]

FileSystemChanged == [op |-> "fs", arg |-> None, outcome |-> "ok", saved |-> FALSE, fresh |-> FALSE]

Init ==
    /\ rootExists = TRUE
    /\ tree = EmptyDict
    /\ faissFile = EmptyDict
    /\ metaFile = EmptyDict
    /\ clock = 0
    /\ searcher = NoSearcher
    /\ last = Started

\* IndexStorage.save_index: index.faiss is written first, metadata.json second; a save
\* that is interrupted between the two writes leaves the new index.faiss alone
save_index(index_name, plan, interrupted) ==
    /\ clock < MaxClock
    /\ clock' = clock + 1
    /\ faissFile' = DictPut(faissFile, index_name, [rows |-> plan.rows, save |-> clock + 1])
    /\ metaFile' = IF interrupted THEN metaFile
                   ELSE DictPut(metaFile, index_name, plan.metadata)

\* an operation of the Indexer ends: it raised, returned without saving, or saved
Finish(op, arg, index_name, res, interrupted) ==
    /\ interrupted => res.plan.saved
    /\ IF res.plan.saved
       THEN save_index(index_name, res.plan, interrupted)
       ELSE UNCHANGED <<faissFile, metaFile, clock>>
    /\ last' = [op |-> op, arg |-> arg,
                outcome |-> IF interrupted THEN "killed" ELSE res.outcome,
                saved |-> res.plan.saved /\ ~interrupted,
                fresh |-> IF interrupted THEN FALSE
                          ELSE IF op = "index" /\ res.plan.saved THEN TRUE
                          ELSE last.fresh]
    /\ UNCHANGED <<rootExists, tree, searcher>>

(* the file system changes under the indexer *)
WriteFile(p, bytes) ==
    /\ rootExists
    /\ IF p \in DOMAIN tree THEN tree[p] # bytes ELSE TRUE
    /\ tree' = DictPut(tree, p, bytes)
    /\ last' = FileSystemChanged
    /\ UNCHANGED <<rootExists, faissFile, metaFile, clock, searcher>>

RemoveFile(p) ==
    /\ p \in DOMAIN tree
    /\ tree' = DictDrop(tree, {p})
    /\ last' = FileSystemChanged
    /\ UNCHANGED <<rootExists, faissFile, metaFile, clock, searcher>>

RemoveRoot ==
    /\ rootExists
    /\ rootExists' = FALSE
    /\ tree' = EmptyDict
    /\ last' = FileSystemChanged
    /\ UNCHANGED <<faissFile, metaFile, clock, searcher>>

MakeRoot ==
    /\ ~rootExists
    /\ rootExists' = TRUE
    /\ last' = FileSystemChanged
    /\ UNCHANGED <<tree, faissFile, metaFile, clock, searcher>>

(* Indexer.index_directory *)
IndexDirectory(directory_path, index_name, use_chunking) ==
    Finish("index", directory_path, index_name,
           index_directory(directory_path, index_name, use_chunking, DEFAULT_MODEL, clock + 1),
           FALSE)

(* Indexer.update_index *)
UpdateIndex(index_name) ==
    Finish("update", index_name, index_name,
           update_index(index_name, DEFAULT_MODEL, clock + 1), FALSE)

(* IndexStorage.delete_index: the index directory is removed with both files *)
DeleteIndex(index_name) ==
    /\ faissFile' = DictDrop(faissFile, {index_name})
    /\ metaFile' = DictDrop(metaFile, {index_name})
    /\ last' = [op |-> "delete", arg |-> index_name, outcome |-> "ok", saved |-> FALSE,
                fresh |-> FALSE]
    /\ UNCHANGED <<rootExists, tree, clock, searcher>>

\* the two files of an index do not come from one save
Torn(index_name) ==
    /\ index_name \in DOMAIN faissFile
    /\ IF index_name \in DOMAIN metaFile
       THEN metaFile[index_name].updated_at # faissFile[index_name].save
       ELSE TRUE

(* an index or update whose save_index is interrupted between its two writes; one
   interruption is followed until a later save repairs the index *)
InterruptedIndex(index_name, use_chunking) ==
    /\ ~Torn(index_name)
    /\ Finish("index", "proj", index_name,
              index_directory("proj", index_name, use_chunking, DEFAULT_MODEL, clock + 1), TRUE)

InterruptedUpdate(index_name) ==
    /\ ~Torn(index_name)
    /\ Finish("update", index_name, index_name,
              update_index(index_name, DEFAULT_MODEL, clock + 1), TRUE)

(* a search request: the handler validates, may update the index, loads it and searches *)
NoUpdate == [outcome |-> "skipped", plan |-> NoSave]

\* what the vector index answers when the distances are not looked at: the rows in order
RowsInOrder(ntotal) == [i \in 1..ntotal |-> [row |-> i, distance |-> 0]]

\* Searcher(index_name).search(query, top_k): the load, then the search
LoadAndSearch(index_name, faiss, meta, query, top_k) ==
    IF ~(index_name \in DOMAIN faiss /\ index_name \in DOMAIN meta)
    THEN "FileNotFoundError"
    ELSE SearcherSearch(Len(faiss[index_name].rows), meta[index_name], query, top_k, None,
                        RowsInOrder(Len(faiss[index_name].rows))).outcome

\* failing: the save_index of the update raises between its two writes; the handler
\* catches what the update raises and goes on to the search
SearchRequest(rejected, auto_update, failing, index_name, query, top_k) ==
    LET upd == IF auto_update /\ ~rejected
               THEN update_index(index_name, DEFAULT_MODEL, clock + 1)
               ELSE NoUpdate
    IN  /\ IF upd.plan.saved
           THEN save_index(index_name, upd.plan, failing)
           ELSE UNCHANGED <<faissFile, metaFile, clock>>
        /\ last' = [op |-> "search",
                    arg |-> [query |-> query, top_k |-> top_k],
                    update |-> IF upd.plan.saved /\ failing THEN "OSError" ELSE upd.outcome,
                    outcome |-> IF rejected THEN "Abort"
                                ELSE LoadAndSearch(index_name, faissFile', metaFile',
                                                   query, top_k),
                    saved |-> upd.plan.saved /\ ~failing,
                    fresh |-> last.fresh /\ ~(upd.plan.saved /\ failing)]
        /\ UNCHANGED <<rootExists, tree, searcher>>

(* SearchCommands.search: _validate_query, _handle_auto_update, Searcher, search *)
CliSearch(query, index, top_k, auto_update) ==
    SearchRequest(EmptyQuery(query), auto_update, FALSE, index, query, top_k)

(* CodeSense.search of an instance that has no searcher loaded: update, Searcher, search *)
ApiSearch(index_name, query, top_k, auto_update) ==
    SearchRequest(FALSE, auto_update, FALSE, index_name, query, top_k)

(* a search with auto-update whose update fails in save_index after index.faiss is
   written: json.dump raises, the handler catches it *)
FailedAutoUpdateSearch(index_name, query, top_k) ==
    /\ ~Torn(index_name)
    /\ update_index(index_name, DEFAULT_MODEL, clock + 1).plan.saved
    /\ SearchRequest(FALSE, TRUE, TRUE, index_name, query, top_k)

Next ==
    \/ \E p \in FileNames : \E bytes \in BytesFor(p) : WriteFile(p, bytes)
    \/ \E p \in FileNames : RemoveFile(p)
    \/ RemoveRoot
    \/ MakeRoot
    \/ \E d \in DirArgs, n \in IndexNames, c \in BOOLEAN : IndexDirectory(d, n, c)
    \/ \E n \in IndexNames : UpdateIndex(n)
    \/ \E n \in IndexNames : DeleteIndex(n)
    \/ \E r \in SpecRequests, n \in IndexNames, u \in BOOLEAN :
           CliSearch(r[1], n, r[2], u)
    \/ \E r \in SpecRequests, n \in IndexNames, u \in BOOLEAN :
           ApiSearch(n, r[1], r[2], u)

Spec == Init /\ [][Next]_vars

\* the operations that meet an interrupted save: the tree changes, the index is built or
\* updated again, and a search loads what is on disk
NextInterrupted ==
    \/ \E p \in FileNames : \E bytes \in BytesFor(p) : WriteFile(p, bytes)
    \/ \E p \in FileNames : RemoveFile(p)
    \/ \E d \in DirArgs, n \in IndexNames, c \in BOOLEAN : IndexDirectory(d, n, c)
    \/ \E n \in IndexNames : UpdateIndex(n)
    \/ \E n \in IndexNames, u \in BOOLEAN : ApiSearch(n, "login", 5, u)
    \/ \E n \in IndexNames : FailedAutoUpdateSearch(n, "login", 5)
    \/ \E n \in IndexNames, c \in BOOLEAN : InterruptedIndex(n, c)
    \/ \E n \in IndexNames : InterruptedUpdate(n)

SpecInterrupted == Init /\ [][NextInterrupted]_vars

----------------------------------------------------------------------------
(* Indexers built with a model of their own: "codesense index --model", and the
   CodeSense instances made with embedding_model *)

IndexWithModel(index_name, model) ==
    Finish("index", "proj", index_name,
           index_directory("proj", index_name, TRUE, model, clock + 1), FALSE)

UpdateWithModel(index_name, model) ==
    Finish("update", index_name, index_name, update_index(index_name, model, clock + 1), FALSE)

NextModels ==
    \/ \E p \in FileNames : \E bytes \in OtherBytes : WriteFile(p, bytes)
    \/ \E p \in FileNames : RemoveFile(p)
    \/ \E n \in IndexNames, model \in Models : IndexWithModel(n, model)
    \/ \E n \in IndexNames, model \in Models : UpdateWithModel(n, model)

SpecModels == Init /\ [][NextModels]_vars

----------------------------------------------------------------------------
(* One CodeSense instance: its index, update, delete and search calls, and the Searcher
   it keeps between searches *)

\* an instance that keeps its Searcher over an index or update call
KeepSearcher(held) == held

\* "self._searcher = None" behind an index, update or delete call that returned
ResetSearcher(held) == NoSearcher

\* Searcher.__init__: load_index, or FileNotFoundError, which leaves no Searcher
LoadSearcher(index_name, faiss, meta) ==
    IF index_name \in DOMAIN faiss /\ index_name \in DOMAIN meta
    THEN [loaded |-> TRUE, rows |-> faiss[index_name].rows, metadata |-> meta[index_name]]
    ELSE NoSearcher

\* CodeSense.index and CodeSense.update: the Indexer call, then the reset of the Searcher
\* when the call has returned
CodeSenseCall(op, arg, index_name, res) ==
    /\ IF res.plan.saved
       THEN save_index(index_name, res.plan, FALSE)
       ELSE UNCHANGED <<faissFile, metaFile, clock>>
    /\ searcher' = IF res.outcome = "ok" THEN ResetSearcher(searcher) ELSE searcher
    /\ last' = [op |-> op, arg |-> arg, outcome |-> res.outcome, saved |-> res.plan.saved,
                fresh |-> IF op = "index" /\ res.plan.saved THEN TRUE ELSE last.fresh]
    /\ UNCHANGED <<rootExists, tree>>

CodeSenseIndex(index_name, directory, use_chunking) ==
    CodeSenseCall("index", directory, index_name,
                  index_directory(directory, index_name, use_chunking, DEFAULT_MODEL, clock + 1))

CodeSenseUpdate(index_name) ==
    CodeSenseCall("update", index_name, index_name,
                  update_index(index_name, DEFAULT_MODEL, clock + 1))

CodeSenseDelete(index_name) ==
    /\ faissFile' = DictDrop(faissFile, {index_name})
    /\ metaFile' = DictDrop(metaFile, {index_name})
    /\ searcher' = ResetSearcher(searcher)
    /\ last' = [op |-> "delete", arg |-> index_name, outcome |-> "ok", saved |-> FALSE,
                fresh |-> FALSE]
    /\ UNCHANGED <<rootExists, tree, clock>>

\* CodeSense.search: the update when asked for, whose exception is dropped; the Searcher
\* is loaded when the instance holds none; the search runs on the Searcher. held: the
\* instance came with a Searcher; searched: the Searcher the search ran on
CodeSenseSearch(index_name, query, top_k, auto_update) ==
    LET upd == IF auto_update THEN update_index(index_name, DEFAULT_MODEL, clock + 1)
               ELSE NoUpdate
        kept == IF auto_update /\ upd.outcome = "ok" THEN ResetSearcher(searcher)
                ELSE searcher
    IN  /\ IF upd.plan.saved
           THEN save_index(index_name, upd.plan, FALSE)
           ELSE UNCHANGED <<faissFile, metaFile, clock>>
        /\ searcher' = IF kept.loaded THEN kept
                       ELSE LoadSearcher(index_name, faissFile', metaFile')
        /\ last' = [op |-> "search",
                    arg |-> [query |-> query, top_k |-> top_k],
                    update |-> upd.outcome,
                    outcome |-> IF ~searcher'.loaded THEN "FileNotFoundError"
                                ELSE SearcherSearch(Len(searcher'.rows), searcher'.metadata,
                                                    query, top_k, None,
                                                    RowsInOrder(Len(searcher'.rows))).outcome,
                    held |-> searcher.loaded,
                    searched |-> searcher',
                    saved |-> upd.plan.saved,
                    fresh |-> last.fresh]
        /\ UNCHANGED <<rootExists, tree>>

NextCodeSense ==
    \/ \E p \in FileNames : \E bytes \in OtherBytes : WriteFile(p, bytes)
    \/ \E p \in FileNames : RemoveFile(p)
    \/ \E n \in IndexNames, d \in DirArgs, c \in BOOLEAN : CodeSenseIndex(n, d, c)
    \/ \E n \in IndexNames : CodeSenseUpdate(n)
    \/ \E n \in IndexNames : CodeSenseDelete(n)
    \/ \E n \in IndexNames, u \in BOOLEAN : CodeSenseSearch(n, "login", 5, u)

SpecCodeSense == Init /\ [][NextCodeSense]_vars

----------------------------------------------------------------------------
(* The search alone, over every small persisted index *)

ChunkKinds ==
    { [type |-> "function", framework_type |-> None],
      [type |-> "class", framework_type |-> None],
      [type |-> "class", framework_type |-> "django_model"],
      [type |-> "function", framework_type |-> "fastapi_route"] }

\* a persisted chunk-mode index of one file whose chunks have the given kinds
ChunkIndex(kinds) ==
    LET chunks == [i \in 1..Len(kinds) |->
                      [chunk_id |-> <<1, i>>, file_path |-> "a.py", type |-> kinds[i].type,
                       name |-> "f", signature |-> <<"def", "f">>, docstring |-> <<>>,
                       framework_type |-> kinds[i].framework_type]]
    IN  [rows |-> [i \in 1..Len(kinds) |-> encode(DEFAULT_MODEL, <<chunks[i].signature>>)],
         metadata |->
             [index_name |-> "idx", indexed_path |-> "proj", created_at |-> 1, updated_at |-> 1,
              num_files |-> 1, num_chunks |-> Len(kinds), embedding_model |-> DEFAULT_MODEL,
              embedding_dimension |-> get_embedding_dim(DEFAULT_MODEL),
              use_chunking |-> TRUE, chunks |-> chunks, files |-> <<>>,
              file_metadata |-> [p \in {"a.py"} |-> FileRecord(<<"f", "LF">>, <<"f", "LF">>)]]]

\* a persisted whole-file index of n files
FileIndex(n) ==
    LET files == [i \in 1..n |->
                     [file_path |-> <<"m", i>>, size |-> 2,
                      hash |-> _calculate_file_hash(<<"f", "LF">>), src |-> <<"f", "LF">>]]
    IN  [rows |-> [i \in 1..n |-> encode(DEFAULT_MODEL, <<"f", "LF">>)],
         metadata |->
             [index_name |-> "idx", indexed_path |-> "proj", created_at |-> 1, updated_at |-> 1,
              num_files |-> n, num_chunks |-> 0, embedding_model |-> DEFAULT_MODEL,
              embedding_dimension |-> get_embedding_dim(DEFAULT_MODEL),
              use_chunking |-> FALSE, chunks |-> <<>>, files |-> files,
              file_metadata |-> EmptyDict]]

InitSearch ==
    /\ rootExists = TRUE
    /\ tree = EmptyDict
    /\ clock = 1
    /\ searcher = NoSearcher
    /\ last = Started
    /\ \E n \in 1..MaxRows :
          \E index \in {ChunkIndex(kinds) : kinds \in [1..n -> ChunkKinds]} \cup {FileIndex(n)} :
              /\ faissFile = [x \in {"idx"} |-> [rows |-> index.rows, save |-> 1]]
              /\ metaFile = [x \in {"idx"} |-> index.metadata]

\* the answers the vector index can give for k = ntotal: every row once, nearest first,
\* rows at the same distance in any order
Nearest(ntotal) ==
    {h \in [1..ntotal -> [row : 1..ntotal, distance : DistValues]] :
        /\ \A i, j \in 1..ntotal : i # j => h[i].row # h[j].row
        /\ \A i \in 1..(ntotal - 1) : h[i].distance <= h[i + 1].distance}

(* Searcher.search on the loaded index "idx"; a search changes nothing the next search
   reads, so one request is answered per behaviour *)
Search(query, top_k, filter_type, nearest) ==
    /\ last' = [op |-> "search",
                arg |-> [query |-> query, top_k |-> top_k, filter_type |-> filter_type,
                         nearest |-> nearest],
                saved |-> FALSE, fresh |-> FALSE]
               @@ SearcherSearch(Len(faissFile["idx"].rows), metaFile["idx"],
                                 query, top_k, filter_type, nearest)
    /\ UNCHANGED <<rootExists, tree, faissFile, metaFile, clock, searcher>>

NextSearch ==
    /\ last.op = "init"
    /\ \E q \in Queries, k \in TopKs, f \in ExplicitFilters \cup {None},
          nearest \in Nearest(Len(faissFile["idx"].rows)) :
           Search(q, k, f, nearest)

SpecSearch == InitSearch /\ [][NextSearch]_vars

----------------------------------------------------------------------------
(* The parser on its own: PythonParser.parse on the syntax trees of small modules *)

MaxBody == 2

\* statements nested in a function or in a method, which the parser never visits
NestedDef == Node("FunctionDef", "inner", <<>>)

NestedClass == Node("ClassDef", "Nested", <<>>)

Statement == Node("Assign", "x", <<>>)

\* the top-level statements: functions, classes with their bodies, and other statements
TopNodes ==
    { Node("FunctionDef", "f", <<>>),
      Node("FunctionDef", "f", <<NestedDef>>),
      Node("FunctionDef", "f", <<NestedClass>>),
      Node("AsyncFunctionDef", "g", <<Statement>>),
      Node("ClassDef", "C", <<>>),
      Node("ClassDef", "C", <<Node("FunctionDef", "m", <<>>)>>),
      Node("ClassDef", "C", <<Statement, Node("FunctionDef", "m", <<NestedDef>>),
                              Node("AsyncFunctionDef", "n", <<>>)>>),
      Node("ClassDef", "C", <<NestedClass, Node("FunctionDef", "m", <<>>)>>),
      Node("ClassDef", "D", <<Node("FunctionDef", "m", <<>>)>>),
      Statement }

Modules == UNION {[1..n -> TopNodes] : n \in 0..MaxBody}

InitParse ==
    /\ rootExists = TRUE
    /\ tree = EmptyDict
    /\ faissFile = EmptyDict
    /\ metaFile = EmptyDict
    /\ clock = 0
    /\ searcher = NoSearcher
    /\ \E body \in Modules :
           last = [op |-> "source", arg |-> body, outcome |-> "ok", saved |-> FALSE,
                   fresh |-> FALSE]

Parse ==
    /\ last.op = "source"
    /\ last' = [last EXCEPT !.op = "parse"] @@ [chunks |-> parse(last.arg)]
    /\ UNCHANGED <<rootExists, tree, faissFile, metaFile, clock, searcher>>

SpecParse == InitParse /\ [][Parse]_vars

----------------------------------------------------------------------------
(* UniversalParser.parse: the chunks of PythonParser.parse, then the framework tags *)

\* a class or a function definition with its base classes, decorators and body
Def(kind, name, bases, decorators, body) ==
    [kind |-> kind, name |-> name, bases |-> bases, decorators |-> decorators, body |-> body]

\* name = ... and name: ... = ... in a class body
Assign(name) == [kind |-> "Assign", targets |-> <<name>>, body |-> <<>>]

AnnAssign(name) == [kind |-> "AnnAssign", target |-> name, body |-> <<>>]

\* _detect_class_framework_type, on the base classes the modules here use
_detect_class_framework_type(base_classes) ==
    IF "models.Model" \in Range(base_classes) THEN "django_model"
    ELSE IF "APIView" \in Range(base_classes) THEN "django_view"
    ELSE IF "serializers.ModelSerializer" \in Range(base_classes) THEN "django_serializer"
    ELSE IF "BaseModel" \in Range(base_classes) THEN "pydantic_model"
    ELSE None

\* _detect_function_framework_type, on the decorators the modules here use; the type is
\* None when no decorator is a route or a view decorator
_detect_function_framework_type(decorators) ==
    IF "app.get('/items')" \in Range(decorators)
    THEN [type |-> "fastapi_route", method |-> "GET", path |-> "/items"]
    ELSE IF "app.route('/home')" \in Range(decorators)
    THEN [type |-> "flask_route", method |-> "GET", path |-> "/home"]
    ELSE IF "login_required" \in Range(decorators)
    THEN [type |-> "django_view", method |-> None, path |-> None]
    ELSE [type |-> None, method |-> None, path |-> None]

\* str.startswith('_')
StartsWithUnderscore(name) == Chars(name) # <<>> /\ Chars(name)[1] = "_"

\* UniversalParser._extract_model_fields: the loop over node.body
RECURSIVE _extract_model_fields(_)
_extract_model_fields(body) ==
    IF body = <<>> THEN <<>>
    ELSE LET item == Head(body)
         IN  (IF item.kind = "AnnAssign"
              THEN IF ~StartsWithUnderscore(item.target) /\ item.target \notin {"Config", "Meta"}
                   THEN <<item.target>>
                   ELSE <<>>
              ELSE IF item.kind = "Assign"
              THEN SelectSeq(item.targets,
                             LAMBDA t : ~StartsWithUnderscore(t) /\ t \notin {"objects", "Meta"})
              ELSE <<>>) \o _extract_model_fields(Tail(body))

\* the statements of the bodies of the nodes, in order
RECURSIVE Children(_)
Children(nodes) ==
    IF nodes = <<>> THEN <<>> ELSE Head(nodes).body \o Children(Tail(nodes))

\* ast.walk: breadth first, the statements of one depth before those of the next
RECURSIVE walk(_)
walk(nodes) == IF nodes = <<>> THEN <<>> ELSE nodes \o walk(Children(nodes))

\* a chunk of PythonParser.parse with the framework fields of a new CodeChunk
Untagged(chunk) ==
    [type |-> chunk.type, name |-> chunk.name, parent |-> chunk.parent,
     framework_type |-> None, http_method |-> None, route_path |-> None,
     base_classes |-> <<>>, decorators |-> <<>>, model_fields |-> <<>>]

\* chunk_map = {chunk.name: chunk for chunk in chunks}: the last chunk of each name,
\* as its position in the list, 0 when no chunk has the name
ChunkMap(chunks, name) ==
    IF \E i \in 1..Len(chunks) : chunks[i].name = name
    THEN CHOOSE i \in 1..Len(chunks) :
             /\ chunks[i].name = name
             /\ \A j \in (i + 1)..Len(chunks) : chunks[j].name # name
    ELSE 0

\* the body of the loop of _enhance_with_framework_metadata for a class node
EnhanceClass(chunk, node) ==
    LET framework_type == _detect_class_framework_type(node.bases)
        tagged == [chunk EXCEPT !.base_classes = node.bases, !.decorators = node.decorators]
    IN  IF framework_type = None THEN tagged
        ELSE IF Contains(Chars(framework_type), Chars("model"))
        THEN [tagged EXCEPT !.framework_type = framework_type,
                            !.model_fields = _extract_model_fields(node.body)]
        ELSE [tagged EXCEPT !.framework_type = framework_type]

\* the body of the loop of _enhance_with_framework_metadata for a function node
EnhanceFunction(chunk, node) ==
    LET framework_info == _detect_function_framework_type(node.decorators)
        tagged == [chunk EXCEPT !.decorators = node.decorators]
    IN  IF framework_info.type = None THEN tagged
        ELSE [tagged EXCEPT !.framework_type = framework_info.type,
                            !.http_method = framework_info.method,
                            !.route_path = framework_info.path]

\* _enhance_with_framework_metadata: every class and function node of the walk tags the
\* chunk that chunk_map holds under the name of the node
RECURSIVE _enhance_with_framework_metadata(_, _)
_enhance_with_framework_metadata(chunks, nodes) ==
    IF nodes = <<>> THEN chunks
    ELSE LET node == Head(nodes)
             at == ChunkMap(chunks, node.name)
         IN  IF node.kind \notin FunctionDefs \cup {"ClassDef"}
             THEN _enhance_with_framework_metadata(chunks, Tail(nodes))
             ELSE IF at = 0
             THEN _enhance_with_framework_metadata(chunks, Tail(nodes))
             ELSE _enhance_with_framework_metadata(
                      [chunks EXCEPT ![at] = IF node.kind = "ClassDef"
                                             THEN EnhanceClass(chunks[at], node)
                                             ELSE EnhanceFunction(chunks[at], node)],
                      Tail(nodes))

\* UniversalParser.parse of a module body
universal_parse(body) ==
    LET chunks == parse(body)
    IN  _enhance_with_framework_metadata([i \in 1..Len(chunks) |-> Untagged(chunks[i])],
                                         walk(body))

Fields == <<AnnAssign("title"), Assign("objects"), AnnAssign("_cache"), Assign("Config")>>

View == Def("FunctionDef", "get", <<>>, <<"app.get('/items')">>, <<>>)

Plain == Def("FunctionDef", "get", <<>>, <<>>, <<>>)

\* the top-level statements of the modules: tagged and plain definitions, some of which
\* share a name
FrameworkNodes ==
    { Def("ClassDef", "User", <<"models.Model">>, <<>>, Fields),
      Def("ClassDef", "User", <<"BaseModel">>, <<>>, <<AnnAssign("title"), Plain>>),
      Def("ClassDef", "UserSerializer", <<"serializers.ModelSerializer">>, <<>>, Fields),
      Def("ClassDef", "Home", <<"APIView">>, <<>>, <<View>>),
      Def("ClassDef", "Helper", <<>>, <<>>, <<Plain, Assign("title")>>),
      Def("ClassDef", "get", <<"models.Model">>, <<>>, <<>>),
      View,
      Plain,
      Def("FunctionDef", "home", <<>>, <<"app.route('/home')">>, <<View>>),
      Def("AsyncFunctionDef", "home", <<>>, <<"login_required">>, <<>>),
      Def("FunctionDef", "User", <<>>, <<"staticmethod">>, <<>>) }

FrameworkModules == UNION {[1..n -> FrameworkNodes] : n \in 0..MaxBody}

InitUniversal ==
    /\ rootExists = TRUE
    /\ tree = EmptyDict
    /\ faissFile = EmptyDict
    /\ metaFile = EmptyDict
    /\ clock = 0
    /\ searcher = NoSearcher
    /\ \E body \in FrameworkModules :
           last = [op |-> "source", arg |-> body, outcome |-> "ok", saved |-> FALSE,
                   fresh |-> FALSE]

UniversalParse ==
    /\ last.op = "source"
    /\ last' = [last EXCEPT !.op = "parse"] @@ [chunks |-> universal_parse(last.arg)]
    /\ UNCHANGED <<rootExists, tree, faissFile, metaFile, clock, searcher>>

SpecUniversal == InitUniversal /\ [][UniversalParse]_vars

(***************************************************************************)
(* Properties of the indexer and of its persistence                        *)
(***************************************************************************)

\* the chunk records of one file, in the order the index holds them
ChunksOf(metadata, p) ==
    SelectSeq(metadata.chunks, LAMBDA c : c.file_path = p)

\* the list whose positions are the FAISS rows of the index
Positional(metadata) ==
    IF metadata.use_chunking THEN metadata.chunks ELSE metadata.files

\* C1: after every index_directory and update_index call that returns, the persisted
\* index has as many chunk records (file paths, for an index of whole files) as FAISS
\* rows, so every row a search returns is a position of the list
C1_RowsMatchRecords ==
    \A n \in IndexNames :
        /\ (n \in DOMAIN metaFile) = (n \in DOMAIN faissFile)
        /\ n \in DOMAIN metaFile =>
               /\ Len(Positional(metaFile[n])) = Len(faissFile[n].rows)
               /\ metaFile[n].use_chunking =>
                      metaFile[n].num_chunks = Len(faissFile[n].rows)

\* C1 happens: an update rebuilt the index from kept rows and new rows
C1_RebuiltByUpdate ==
    /\ last.op = "update"
    /\ last.saved
    /\ \E n \in DOMAIN metaFile :
           /\ Len(faissFile[n].rows) >= 2
           /\ \E i, j \in 1..Len(faissFile[n].rows) :
                  /\ metaFile[n].use_chunking
                  /\ metaFile[n].chunks[i].chunk_id[1] < metaFile[n].updated_at
                  /\ metaFile[n].chunks[j].chunk_id[1] = metaFile[n].updated_at

\* C2: a save is atomic: at every moment, also after an interrupted save, the FAISS file
\* and the metadata file of an index are the two halves of one save
C2_SaveIsAtomic ==
    \A n \in IndexNames :
        /\ (n \in DOMAIN metaFile) = (n \in DOMAIN faissFile)
        /\ n \in DOMAIN metaFile => faissFile[n].save = metaFile[n].updated_at
\* update_index(n) runs on the loaded chunk index n and returns
UpdateReturns(n) ==
    /\ last'.op = "update"
    /\ last'.arg = n
    /\ last'.outcome = "ok"
    /\ CanLoad(n)
    /\ metaFile[n].use_chunking

\* p has a FileRecord in the index n and is still in the tree
Recorded(n, p) ==
    /\ p \in DOMAIN metaFile[n].file_metadata
    /\ p \in DOMAIN tree

\* C3: when update_index runs, every recorded file whose content was not modified since
\* it was indexed keeps its persisted chunk records as they were, chunk_id included,
\* whatever happened to the other files
C3_UnmodifiedFileKeepsChunks ==
    [][\A n \in IndexNames : UpdateReturns(n) =>
          \A p \in FileNames :
              (Recorded(n, p) /\ tree[p] = metaFile[n].file_metadata[p].src) =>
                  /\ n \in DOMAIN metaFile'
                  /\ ChunksOf(metaFile'[n], p) = ChunksOf(metaFile[n], p)]_vars

\* C3 happens: an update has re-extracted the modified a.py and kept the chunks of b.py
C3_OnlyOtherFileReindexed ==
    /\ last.op = "update"
    /\ last.saved
    /\ \E n \in DOMAIN metaFile :
           /\ metaFile[n].use_chunking
           /\ "b.py" \in DOMAIN tree
           /\ "b.py" \in DOMAIN metaFile[n].file_metadata
           /\ tree["b.py"] = metaFile[n].file_metadata["b.py"].src
           /\ ChunksOf(metaFile[n], "b.py") # <<>>
           /\ \A i \in 1..Len(metaFile[n].chunks) :
                  (metaFile[n].chunks[i].chunk_id[1] = metaFile[n].updated_at)
                      = (metaFile[n].chunks[i].file_path = "a.py")
           /\ ChunksOf(metaFile[n], "a.py") # <<>>

\* C4: when a recorded file was removed from disk and update_index runs, the persisted
\* index holds no chunk of that file and no FileRecord for it
C4_DeletedFileLeavesIndex ==
    [][\A n \in IndexNames : UpdateReturns(n) =>
          \A p \in FileNames :
              (p \in DOMAIN metaFile[n].file_metadata /\ p \notin DOMAIN tree) =>
                  /\ n \in DOMAIN metaFile'
                  /\ p \notin DOMAIN metaFile'[n].file_metadata
                  /\ ChunksOf(metaFile'[n], p) = <<>>]_vars

\* C5: update_index on an index whose tree has not changed since it was built leaves
\* num_files, num_chunks and the chunk records as they were
C5_UpdateIsIdempotent ==
    [][\A n \in IndexNames : (last.fresh /\ UpdateReturns(n)) =>
          /\ n \in DOMAIN metaFile'
          /\ metaFile'[n].num_files = metaFile[n].num_files
          /\ metaFile'[n].num_chunks = metaFile[n].num_chunks
          /\ metaFile'[n].chunks = metaFile[n].chunks]_vars

\* C6: when update_index runs, every recorded file whose bytes differ from the bytes that
\* were indexed loses its old chunks and gets a FileRecord of its current bytes
C6_ByteEditIsChanged ==
    [][\A n \in IndexNames : UpdateReturns(n) =>
          \A p \in FileNames :
              (Recorded(n, p) /\ tree[p] # metaFile[n].file_metadata[p].src) =>
                  /\ n \in DOMAIN metaFile'
                  /\ \A c \in Range(ChunksOf(metaFile'[n], p)) :
                         c \notin Range(metaFile[n].chunks)
                  /\ p \in DOMAIN metaFile'[n].file_metadata =>
                         metaFile'[n].file_metadata[p].src = tree[p]]_vars

\* the file cannot be read, or its text cannot be parsed
FailsToReadOrParse(bytes) ==
    \/ _read_file_content(bytes).none
    \/ SyntaxError(_read_file_content(bytes).text)

\* C7: when update_index runs and a recorded file fails to be read or to parse, its
\* FileRecord stays as it was persisted and its chunks stay in the index
C7_FailedFileKeepsRecord ==
    [][\A n \in IndexNames : UpdateReturns(n) =>
          \A p \in FileNames :
              (Recorded(n, p) /\ FailsToReadOrParse(tree[p])) =>
                  /\ n \in DOMAIN metaFile'
                  /\ p \in DOMAIN metaFile'[n].file_metadata
                  /\ metaFile'[n].file_metadata[p] = metaFile[n].file_metadata[p]
                  /\ ChunksOf(metaFile'[n], p) = ChunksOf(metaFile[n], p)]_vars

\* C8: a search request with an empty or whitespace-only query, or with top_k <= 0, ends
\* in an error and leaves the persisted indexes as they were
C8_InvalidSearchWritesNothing ==
    [][(/\ last'.op = "search"
        /\ EmptyQuery(last'.arg.query) \/ last'.arg.top_k <= 0)
          => (last'.outcome # "ok" /\ UNCHANGED persisted)]_vars
\* C9: update_index on a name that has no index, or whose indexed directory is gone, and
\* index_directory on a missing path or on a path that is no directory, raise to the
\* caller and leave every persisted index as it was
C9_NotFoundChangesNothing ==
    [][/\ (/\ last'.op = "update"
           /\ \/ last'.arg \notin DOMAIN faissFile
              \/ ~rootExists)
          => (last'.outcome = "FileNotFoundError" /\ UNCHANGED persisted)
       /\ (last'.op = "index" /\ last'.arg = "proj" /\ ~rootExists)
          => (last'.outcome = "FileNotFoundError" /\ UNCHANGED persisted)
       /\ (last'.op = "index" /\ last'.arg = "setup.cfg")
          => (last'.outcome = "ValueError" /\ UNCHANGED persisted)]_vars

\* C9 happens: update_index has run on an index whose directory was removed
C9_UpdateWithoutDirectory ==
    /\ last.op = "update"
    /\ last.outcome = "FileNotFoundError"
    /\ last.arg \in DOMAIN metaFile
    /\ ~rootExists

\* the filter of the search that was answered: the explicit one, else the detected one
ActiveFilter ==
    IF Falsy(last.arg.filter_type)
    THEN _analyze_query_intent(last.arg.query)
    ELSE last.arg.filter_type

\* the types the filter table allows for a filter, none for a filter it does not name
AllowedTypes(filter_type) ==
    UNION {Range(m) : m \in MappingOf(Lower(Chars(filter_type)))}

\* C10: in chunk mode, when a filter of the table is active, every returned result has
\* its framework_type or its kind among the types the filter allows; the active filter is
\* the explicit one when one is given and the detected one otherwise
C10_ResultsMatchActiveFilter ==
    (/\ last.op = "search"
     /\ last.outcome = "ok"
     /\ metaFile["idx"].use_chunking
     /\ ~Falsy(ActiveFilter)
     /\ AllowedTypes(ActiveFilter) # {})
        => \A i \in 1..Len(last.results) :
               \/ last.results[i].framework_type \in AllowedTypes(ActiveFilter)
               \/ last.results[i].chunk_type \in AllowedTypes(ActiveFilter)

\* C10 happens: an explicit filter overrode the filter the query suggests, a chunk
\* passed it and a chunk was left out
C10_ExplicitFilterApplied ==
    /\ last.op = "search"
    /\ last.outcome = "ok"
    /\ metaFile["idx"].use_chunking
    /\ last.arg.filter_type = "function"
    /\ _analyze_query_intent(last.arg.query) = "model"
    /\ Len(last.results) = 1
    /\ Len(metaFile["idx"].chunks) = 2
    /\ last.arg.top_k >= 2
\* the file is read as non-empty text that the parser rejects
FailsToParse(bytes) ==
    /\ Truthy(_read_file_content(bytes))
    /\ SyntaxError(_read_file_content(bytes).text)

\* the names the parser extracts from the file as it is on disk
ExtractedNames(bytes) ==
    IF Truthy(_read_file_content(bytes))
    THEN ParseNames(_read_file_content(bytes).text)
    ELSE <<>>

OldRow(old, c) == CHOOSE j \in 1..Len(old) : old[j] = c

\* the records of old that are still in the list new, in the order of old
KeptOf(old, new) == SelectSeq(old, LAMBDA c : c \in Range(new))

\* C20: after an update_index that rebuilds the index, the new chunk list is the kept
\* chunks in their original relative order followed by the newly extracted chunks, and
\* row i of the new vector store is the vector stored at the old row of the chunk when
\* chunk i is kept, and the embedding of its searchable text when chunk i is new
C20_KeptThenNewRows ==
    [][\A n \in IndexNames : (UpdateReturns(n) /\ last'.saved) =>
          LET old == metaFile[n].chunks
              new == metaFile'[n].chunks
              kept == KeptOf(old, new)
          IN  /\ Len(faissFile'[n].rows) = Len(new)
              /\ SubSeq(new, 1, Len(kept)) = kept
              /\ \A i \in 1..Len(new) :
                     IF i <= Len(kept)
                     THEN faissFile'[n].rows[i] = faissFile[n].rows[OldRow(old, new[i])]
                     ELSE /\ new[i] \notin Range(old)
                          /\ new[i].chunk_id[1] = metaFile'[n].updated_at
                          /\ faissFile'[n].rows[i] =
                                 encode(DEFAULT_MODEL,
                                        get_searchable_text(
                                            CodeChunk(new[i].chunk_id, new[i].file_path,
                                                      new[i].name)))]_vars

\* C20 happens: an update has rebuilt an index with a kept chunk, which was not the
\* first record of the list when it was extracted, followed by a newly extracted chunk
C20_RebuiltWithKeptAndNew ==
    /\ last.op = "update"
    /\ last.saved
    /\ \E n \in DOMAIN metaFile :
           /\ metaFile[n].use_chunking
           /\ Len(metaFile[n].chunks) >= 2
           /\ metaFile[n].chunks[1].chunk_id[1] < metaFile[n].updated_at
           /\ metaFile[n].chunks[1].chunk_id[2] > 1
           /\ metaFile[n].chunks[Len(metaFile[n].chunks)].chunk_id[1] = metaFile[n].updated_at

\* the New and the Changed files of the update of the index n
NewOrChanged(n) ==
    {p \in DOMAIN tree :
        IF p \in DOMAIN metaFile[n].file_metadata
        THEN IsChanged(p, metaFile[n].file_metadata[p].hash)
        ELSE TRUE}

\* the chunk records the pass of time stamp has extracted
ExtractedAt(chunks, stamp) == SelectSeq(chunks, LAMBDA c : c.chunk_id[1] = stamp)

\* C21: during update_index the embedding function is called only with the searchable
\* texts of the chunks extracted from New or Changed files, never for a chunk of an
\* Unchanged file, and not at all when no file is New, Changed or Deleted
C21_EncodesOnlyNewAndChanged ==
    [][\A n \in IndexNames : UpdateReturns(n) =>
          LET encoded == update_index(n, DEFAULT_MODEL, clock + 1).encoded
              extracted == IF last'.saved
                           THEN ExtractedAt(metaFile'[n].chunks, clock + 1)
                           ELSE <<>>
          IN  /\ Len(encoded) = Len(extracted)
              /\ \A i \in 1..Len(extracted) :
                     /\ extracted[i].file_path \in NewOrChanged(n)
                     /\ encoded[i] = get_searchable_text(
                                         CodeChunk(extracted[i].chunk_id,
                                                   extracted[i].file_path, extracted[i].name))
              /\ (NewOrChanged(n) = {}
                      /\ DOMAIN metaFile[n].file_metadata \subseteq DOMAIN tree)
                     => encoded = <<>>]_vars

\* C21 happens: an update has kept the chunks of an Unchanged file and has extracted
\* the chunks of another file
C21_UpdatedBesideUnchanged ==
    /\ last.op = "update"
    /\ last.saved
    /\ \E n \in DOMAIN metaFile :
           /\ metaFile[n].use_chunking
           /\ ExtractedAt(metaFile[n].chunks, metaFile[n].updated_at) # <<>>
           /\ \E i \in 1..Len(metaFile[n].chunks) :
                  /\ metaFile[n].chunks[i].chunk_id[1] < metaFile[n].updated_at
                  /\ metaFile[n].chunks[i].file_path \in DOMAIN tree

\* C22: after an update_index that rebuilds the index, the keys of the persisted
\* FileRecord map are the persisted keys minus the Deleted and the Changed paths, united
\* with every New and every Changed path, and the record of each New or Changed path
\* holds the hash of the current content of the file
C22_RecordsOfNewAndChanged ==
    [][\A n \in IndexNames : (UpdateReturns(n) /\ last'.saved) =>
          LET records == metaFile[n].file_metadata
              files_to_remove == (DOMAIN records \ DOMAIN tree)
                                     \cup (NewOrChanged(n) \cap DOMAIN records)
          IN  /\ DOMAIN metaFile'[n].file_metadata
                     = (DOMAIN records \ files_to_remove) \cup NewOrChanged(n)
              /\ \A p \in NewOrChanged(n) :
                     /\ Truthy(_read_file_content(tree[p]))
                     /\ metaFile'[n].file_metadata[p].hash
                            = _calculate_file_hash(_read_file_content(tree[p]).text)]_vars

\* C27: whenever index_directory(dir, name) returns without raising, an index called
\* name exists and its indexed_path is dir
C27_ReturnedIndexExists ==
    [][\A n \in IndexNames :
          (last'.op = "index" /\ last'.outcome = "ok") =>
              /\ n \in DOMAIN faissFile'
              /\ n \in DOMAIN metaFile'
              /\ metaFile'[n].indexed_path = last'.arg]_vars

\* C28: in every persisted chunk-mode index, after any sequence of index and update
\* operations, the file_path of every chunk is a key of the file_metadata map
C28_ChunkHasFileRecord ==
    \A n \in DOMAIN metaFile :
        metaFile[n].use_chunking =>
            \A i \in 1..Len(metaFile[n].chunks) :
                metaFile[n].chunks[i].file_path \in DOMAIN metaFile[n].file_metadata

\* C28 happens: an update has dropped the chunks and the record of the removed a.py and
\* has kept the chunks of b.py, which were extracted behind those of a.py
C28_KeptAfterRemoval ==
    /\ last.op = "update"
    /\ last.saved
    /\ \E n \in DOMAIN metaFile :
           /\ metaFile[n].use_chunking
           /\ DOMAIN tree = {"b.py"}
           /\ DOMAIN metaFile[n].file_metadata = {"b.py"}
           /\ metaFile[n].chunks # <<>>
           /\ metaFile[n].chunks[1].chunk_id[1] < metaFile[n].updated_at
           /\ metaFile[n].chunks[1].chunk_id[2] > 1

\* C29: in every persisted chunk-mode index num_files is the number of entries of
\* file_metadata and num_chunks is the length of the chunk list, after index_directory
\* and after update_index, also when the tree holds an empty or unreadable .py file
C29_CountsMatchLists ==
    \A n \in DOMAIN metaFile :
        metaFile[n].use_chunking =>
            /\ metaFile[n].num_files = Cardinality(DOMAIN metaFile[n].file_metadata)
            /\ metaFile[n].num_chunks = Len(metaFile[n].chunks)

\* C26: in every persisted index every vector row was produced by the embedding model
\* named in the metadata of the index and has the dimension recorded there, after any
\* sequence of index and update operations, also when the Indexer that updates was built
\* with another model than the index was created with
C26_RowsOfRecordedModel ==
    \A n \in DOMAIN metaFile \cap DOMAIN faissFile :
        \A i \in 1..Len(faissFile[n].rows) :
            /\ faissFile[n].rows[i].model = metaFile[n].embedding_model
            /\ get_embedding_dim(faissFile[n].rows[i].model) = metaFile[n].embedding_dimension

\* C30: for one CodeSense instance and any sequence of its index, update, delete and
\* search calls, each search runs against the index state persisted by the most recent
\* completed index or update made through the instance, never against a Searcher loaded
\* before it; a search after delete fails with not-found
C30_SearchRunsOnPersistedIndex ==
    [][\A n \in IndexNames :
          last'.op = "search" =>
              IF n \in DOMAIN faissFile' /\ n \in DOMAIN metaFile'
              THEN last'.searched = [loaded |-> TRUE, rows |-> faissFile'[n].rows,
                                     metadata |-> metaFile'[n]]
              ELSE last'.outcome = "FileNotFoundError"]_vars

\* C30 happens: an instance that held a Searcher has searched, with an update that
\* rebuilt the index, on the index that update saved
C30_SearchedAfterOwnUpdate ==
    /\ last.op = "search"
    /\ last.held
    /\ last.saved
    /\ last.outcome = "ok"
    /\ last.searched.metadata.updated_at = clock
    /\ last.searched.metadata.created_at < clock
    /\ Len(last.searched.rows) >= 2

----------------------------------------------------------------------------
(* Properties of the search *)

\* the groups of an ordered keyword table that have a keyword inside the lower-cased query
MatchingGroups(groups, query) ==
    {i \in 1..Len(groups) :
        \E k \in 1..Len(groups[i].values) :
            Contains(Lower(Chars(query)), Chars(groups[i].values[k]))}

\* the key of the first matching group of the table
FirstMatching(groups, query) ==
    groups[CHOOSE i \in MatchingGroups(groups, query) :
               \A j \in MatchingGroups(groups, query) : i <= j].key

\* C11: the detected filter of a query is the first of django, fastapi, flask with a
\* keyword inside the lower-cased query, else the first of model, route, view, serializer,
\* function, class with one, else none; "user authentication model" gives "model"
C11_FirstMatchingGroupWins ==
    /\ [i \in 1..Len(framework_keywords) |-> framework_keywords[i].key]
           = <<"django", "fastapi", "flask">>
    /\ [i \in 1..Len(intent_keywords) |-> intent_keywords[i].key]
           = <<"model", "route", "view", "serializer", "function", "class">>
    /\ last.op = "search" =>
           /\ _analyze_query_intent(last.arg.query) =
                  IF MatchingGroups(framework_keywords, last.arg.query) # {}
                  THEN FirstMatching(framework_keywords, last.arg.query)
                  ELSE IF MatchingGroups(intent_keywords, last.arg.query) # {}
                  THEN FirstMatching(intent_keywords, last.arg.query)
                  ELSE None
           /\ last.arg.query = "user authentication model" =>
                  _analyze_query_intent(last.arg.query) = "model"

\* C11 happens: a query with keywords of a framework group and of a generic group was
\* searched with no explicit filter
C11_FrameworkBeforeGeneric ==
    /\ last.op = "search"
    /\ last.outcome = "ok"
    /\ last.arg.filter_type = None
    /\ MatchingGroups(framework_keywords, last.arg.query) # {}
    /\ MatchingGroups(intent_keywords, last.arg.query) # {}
\* the raw distance the vector index gave for a row
RawDistance(row) ==
    LET hits == last.arg.nearest
    IN  hits[CHOOSE h \in 1..Len(hits) : hits[h].row = row].distance

\* the filter that was detected for the search answered, none with an explicit filter
DetectedFilter ==
    IF Falsy(last.arg.filter_type) THEN _analyze_query_intent(last.arg.query) ELSE None

\* C12: the score of a returned result is 0.8 times its raw distance exactly when no
\* explicit filter was given, a filter was detected and the chunk is of the detected
\* category; otherwise it is the raw distance (scores are in tenths)
C12_BoostOnlyWhenDetected ==
    (last.op = "search" /\ last.outcome = "ok") =>
        \A i \in 1..Len(last.results) :
            LET r == last.results[i]
                matches == /\ metaFile["idx"].use_chunking
                           /\ DetectedFilter # None
                           /\ \/ r.framework_type \in AllowedTypes(DetectedFilter)
                              \/ r.chunk_type \in AllowedTypes(DetectedFilter)
            IN  r.score = IF matches THEN 8 * RawDistance(r.row) ELSE 10 * RawDistance(r.row)

\* C12 happens: a search with a detected filter returned a boosted result
C12_BoostedResult ==
    /\ last.op = "search"
    /\ last.outcome = "ok"
    /\ last.arg.filter_type = None
    /\ DetectedFilter # None
    /\ \E i \in 1..Len(last.results) :
           /\ RawDistance(last.results[i].row) > 0
           /\ last.results[i].score = 8 * RawDistance(last.results[i].row)
\* the chunk stored at a row is of the model category
ModelTagged(row) ==
    LET c == metaFile["idx"].chunks[row]
    IN  c.framework_type \in AllowedTypes("model") \/ c.type \in AllowedTypes("model")

\* C13: with the detected filter "model", a model chunk m and a closer non-model chunk n
\* among the candidates, and 0.8 * distance(m) < distance(n), the results (with room for
\* both) rank m ahead of n
C13_BoostedModelRanksAhead ==
    (/\ last.op = "search"
     /\ last.outcome = "ok"
     /\ metaFile["idx"].use_chunking
     /\ DetectedFilter = "model"
     /\ last.arg.top_k >= 2)
        => \A m, n \in 1..Len(metaFile["idx"].chunks) :
               (/\ ModelTagged(m)
                /\ ~ModelTagged(n)
                /\ RawDistance(n) < RawDistance(m)
                /\ 8 * RawDistance(m) < 10 * RawDistance(n))
                   => \E i, j \in 1..Len(last.results) :
                          /\ i < j
                          /\ last.results[i].row = m
                          /\ last.results[j].row = n
\* C14: for a non-empty query and no explicit filter, a search with top_k above the
\* number of indexed chunks raises no error and returns every indexed chunk exactly once,
\* ranked
C14_LargeTopKReturnsAll ==
    (/\ last.op = "search"
     /\ metaFile["idx"].use_chunking
     /\ ~EmptyQuery(last.arg.query)
     /\ last.arg.filter_type = None
     /\ last.arg.top_k > Len(metaFile["idx"].chunks))
        => /\ last.outcome = "ok"
           /\ Len(last.results) = Len(metaFile["idx"].chunks)
           /\ {last.results[i].row : i \in 1..Len(last.results)}
                  = 1..Len(metaFile["idx"].chunks)
           /\ \A i \in 1..Len(last.results) : last.results[i].rank = i
\* C15: a search returns at most top_k results, in chunk mode and in whole-file mode,
\* with an explicit, a detected or no filter
C15_AtMostTopK ==
    (last.op = "search" /\ last.outcome = "ok") =>
        Len(last.results) <= last.arg.top_k
\* the lower-cased filter is inside the lower-cased tag or kind of the chunk; a chunk
\* stored with a null framework_type has no tag
TagOrKindContains(chunk_info, filter_type) ==
    \/ /\ chunk_info.framework_type # None
       /\ Contains(Lower(Chars(chunk_info.framework_type)), Lower(Chars(filter_type)))
    \/ Contains(Lower(Chars(chunk_info.type)), Lower(Chars(filter_type)))

\* C16: for a filter that is no key of the filter table, the match never raises and lets
\* through exactly the chunks, untagged ones included, whose lower-cased tag or kind
\* contains the lower-cased filter (seen with room for every chunk in the results)
C16_UnknownFilterIsSubstringMatch ==
    (/\ last.op = "search"
     /\ metaFile["idx"].use_chunking
     /\ ~EmptyQuery(last.arg.query)
     /\ ~Falsy(last.arg.filter_type)
     /\ AllowedTypes(last.arg.filter_type) = {}
     /\ last.arg.top_k >= Len(metaFile["idx"].chunks))
        => /\ last.outcome = "ok"
           /\ {last.results[i].row : i \in 1..Len(last.results)}
                  = {r \in 1..Len(metaFile["idx"].chunks) :
                         TagOrKindContains(metaFile["idx"].chunks[r], last.arg.filter_type)}
\* C17: when the auto-update before a search raises, the search runs against the index
\* as it was persisted before the update attempt, and ends as a search of that index ends
C17_FailedUpdateSearchesOldIndex ==
    [][\A n \in IndexNames :
          (last'.op = "search" /\ last'.update \notin {"skipped", "ok"}) =>
              /\ UNCHANGED persisted
              /\ last'.outcome = LoadAndSearch(n, faissFile, metaFile,
                                               last'.arg.query, last'.arg.top_k)]_vars
----------------------------------------------------------------------------
(* Properties of the parser *)

\* the chunks one top-level statement contributes: itself, and for a class its methods
ChunksOfStatement(node) ==
    IF node.kind \in FunctionDefs
    THEN <<[type |-> "function", name |-> node.name, parent |-> None]>>
    ELSE IF node.kind = "ClassDef"
    THEN LET defs == SelectSeq(node.body, LAMBDA item : item.kind \in FunctionDefs)
         IN  <<[type |-> "class", name |-> node.name, parent |-> None]>>
                 \o [i \in 1..Len(defs) |->
                         [type |-> "method", name |-> defs[i].name, parent |-> node.name]]
    ELSE <<>>

\* the chunks of the first k top-level statements, in source order
RECURSIVE ChunksUpTo(_, _)
ChunksUpTo(body, k) ==
    IF k = 0 THEN <<>> ELSE ChunksUpTo(body, k - 1) \o ChunksOfStatement(body[k])

\* C19: extraction yields, in source order, one function chunk without parent per
\* top-level def or async def, one class chunk per top-level class followed by one method
\* chunk with the class as parent per def of the class body, and nothing for what is
\* nested deeper; function f and class C with method m give the chunks f, C, m
C19_ChunksOfTopLevelAndMethods ==
    last.op = "parse" =>
        /\ last.chunks = ChunksUpTo(last.arg, Len(last.arg))
        /\ \A i \in 1..Len(last.chunks) : last.chunks[i].name \notin {"inner", "Nested", "x"}
        /\ last.arg = <<Node("FunctionDef", "f", <<>>),
                        Node("ClassDef", "C", <<Node("FunctionDef", "m", <<>>)>>)>>
              => last.chunks = <<[type |-> "function", name |-> "f", parent |-> None],
                                 [type |-> "class", name |-> "C", parent |-> None],
                                 [type |-> "method", name |-> "m", parent |-> "C"]>>

\* C19 happens: a module with a class that holds a nested class, a method with a nested
\* function and other statements was parsed
C19_NestedDefinitionsParsed ==
    /\ last.op = "parse"
    /\ \E k \in 1..Len(last.arg) :
           /\ last.arg[k].kind = "ClassDef"
           /\ \E i \in 1..Len(last.arg[k].body) :
                  /\ last.arg[k].body[i].kind \in FunctionDefs
                  /\ last.arg[k].body[i].body # <<>>
    /\ \E k \in 1..Len(last.arg) : last.arg[k].kind = "FunctionDef"
    /\ Len(last.chunks) >= 4

\* C23: every list a search returns is in non-decreasing order of score and its i-th
\* element has rank i, in chunk mode and in whole-file mode
C23_SortedAndRanked ==
    (last.op = "search" /\ last.outcome = "ok") =>
        \A i \in 1..Len(last.results) :
            /\ last.results[i].rank = i
            /\ i < Len(last.results) => last.results[i].score <= last.results[i + 1].score

\* C23 happens: a search of a chunk index has returned two boosted results of
\* different scores
C23_TwoResultsOfDifferentScores ==
    /\ last.op = "search"
    /\ last.outcome = "ok"
    /\ metaFile["idx"].use_chunking
    /\ DetectedFilter # None
    /\ Len(last.results) >= 2
    /\ last.results[1].score < last.results[2].score

----------------------------------------------------------------------------
(* Properties of the framework tags *)

\* the syntax nodes that produce the chunks of a module body, in the order of the chunks
RECURSIVE OwnNodes(_)
OwnNodes(body) ==
    IF body = <<>> THEN <<>>
    ELSE LET node == Head(body)
         IN  (IF node.kind \in FunctionDefs THEN <<node>>
              ELSE IF node.kind = "ClassDef"
              THEN <<node>> \o SelectSeq(node.body, LAMBDA item : item.kind \in FunctionDefs)
              ELSE <<>>) \o OwnNodes(Tail(body))

\* the framework_type, http_method and route_path that the base classes and the
\* decorators of one node give
TagsOf(node) ==
    IF node.kind = "ClassDef"
    THEN [type |-> _detect_class_framework_type(node.bases), method |-> None, path |-> None]
    ELSE _detect_function_framework_type(node.decorators)

\* C24: the framework_type, http_method and route_path of each chunk come from the base
\* classes and the decorators of the syntax node that produced the chunk alone: two
\* definitions of one name in a file never change the tags of each other
C24_TagsFromOwnNode ==
    last.op = "parse" =>
        /\ Len(last.chunks) = Len(OwnNodes(last.arg))
        /\ \A i \in 1..Len(last.chunks) :
               /\ last.chunks[i].framework_type = TagsOf(OwnNodes(last.arg)[i]).type
               /\ last.chunks[i].http_method = TagsOf(OwnNodes(last.arg)[i]).method
               /\ last.chunks[i].route_path = TagsOf(OwnNodes(last.arg)[i]).path

\* the names bound by the assignments at the top level of a class body, in source
\* order, without the names that start with an underscore and without the non-field names
RECURSIVE FieldNames(_)
FieldNames(body) ==
    IF body = <<>> THEN <<>>
    ELSE LET item == Head(body)
             names == IF item.kind = "AnnAssign" THEN <<item.target>>
                      ELSE IF item.kind = "Assign" THEN item.targets
                      ELSE <<>>
         IN  SelectSeq(names, LAMBDA t : ~StartsWithUnderscore(t)
                                             /\ t \notin {"objects", "Meta", "Config"})
                 \o FieldNames(Tail(body))

\* C25: every class chunk tagged as a model or as a serializer carries the field names
\* of its class body as model_fields; every other chunk carries an empty model_fields
C25_ModelFieldsOfModelsAndSerializers ==
    last.op = "parse" =>
        /\ Len(last.chunks) = Len(OwnNodes(last.arg))
        /\ \A i \in 1..Len(last.chunks) :
               IF /\ last.chunks[i].type = "class"
                  /\ last.chunks[i].framework_type
                         \in {"django_model", "pydantic_model", "django_serializer"}
               THEN last.chunks[i].model_fields = FieldNames(OwnNodes(last.arg)[i].body)
               ELSE last.chunks[i].model_fields = <<>>
====
